---- MODULE Spec2Model ----
(***************************************************************************)
(* One run of order_analysis.main(): upload, column validation,            *)
(* preprocessing, sidebar filters, filtering, and the country / product    *)
(* analyses.                                                               *)
(*                                                                         *)
(* Text (product references) is a sequence of code points, so that         *)
(* astype(str) and sorted() are computed, not assumed.  A timestamp is a   *)
(* number of ticks since the epoch (day * TicksPerDay + time of day; day 0 *)
(* is 1970-01-01) plus a number of nanoseconds, far less than one tick.    *)
(***************************************************************************)
EXTENDS Integers, Sequences, FiniteSets

\* pc: position in main(); data: the frame of line 23 (unbound until read);
\* messages: what st.info / st.error / st.warning have shown; vip_filter,
\* date_range, selected_countries, selected_product_refs: the sidebar widgets'
\* values (lines 61-74); filtered_data: lines 82-93; out: the metrics and
\* tables of the chosen analysis; log: the steps executed so far.
VARIABLES pc, data, messages, vip_filter, date_range, selected_countries,
          selected_product_refs, filtered_data, out, log

vars == <<pc, data, messages, vip_filter, date_range, selected_countries,
          selected_product_refs, filtered_data, out, log>>

\* ------------------------------------------------------------------ bounds
MaxRows == 3
TicksPerDay == 2
MaxExtraRefs == 1
TopN == 10

\* ------------------------------------------------------------------- text
Chr_A == <<65>>
Chr_B == <<66>>
Chr_x == <<120>>
AllRefs == <<65, 108, 108, 32, 82, 101, 102, 115>>
AllCountries == "All Countries"

RECURSIVE ToStr(_)
ToStr(n) ==
  IF n < 0 THEN <<45>> \o ToStr(0 - n)
  ELSE IF n < 10 THEN <<48 + n>>
  ELSE Append(ToStr(n \div 10), 48 + (n % 10))

RECURSIVE LexLess(_, _)
LexLess(a, b) ==
  IF a = <<>> THEN b # <<>>
  ELSE IF b = <<>> THEN FALSE
  ELSE IF Head(a) # Head(b) THEN Head(a) < Head(b)
  ELSE LexLess(Tail(a), Tail(b))

RECURSIVE InsertSorted(_, _)
InsertSorted(x, s) ==
  IF s = <<>> THEN <<x>>
  ELSE IF LexLess(x, Head(s)) THEN <<x>> \o s
  ELSE <<Head(s)>> \o InsertSorted(x, Tail(s))

RECURSIVE Sorted(_)
Sorted(s) == IF s = <<>> THEN <<>> ELSE InsertSorted(s[Len(s)], Sorted(SubSeq(s, 1, Len(s) - 1)))

\* ------------------------------------------------------------------ cells
\* A cell of the frame read_csv returns: an integer, a decimal (in tenths),
\* text, a date text (all dates in one format, "YYYY-MM-DD HH:MM", given by
\* the timestamp they denote) or a missing value.
IntC(n) == [t |-> "int", n |-> n, s |-> <<>>]
FltC(tenths) == [t |-> "float", n |-> tenths, s |-> <<>>]
StrC(s) == [t |-> "str", n |-> 0, s |-> s]
DateC(day, tod) == [t |-> "date", n |-> day * TicksPerDay + tod, s |-> <<>>]
NaNC == [t |-> "nan", n |-> 0, s |-> <<>>]

expected_columns == <<"ID", "orderdate", "quantity", "shipcountrycode", "ref_total", "Vip">>
Expected == {expected_columns[i] : i \in 1..Len(expected_columns)}

MkRow(id, od, q, c, ref, vip) ==
  [ID |-> id, orderdate |-> od, quantity |-> q, shipcountrycode |-> c,
   ref_total |-> ref, Vip |-> vip, id |-> id]

RowPool ==
  { MkRow(1, DateC(0, 0), IntC(2), "US", StrC(Chr_A), 1),
    MkRow(1, DateC(0, 0), StrC(Chr_x), "US", StrC(Chr_B), 1),
    MkRow(2, DateC(1, 1), IntC(0 - 1), "FR", StrC(Chr_A), 0),
    MkRow(2, DateC(1, 0), NaNC, "FR", IntC(7), 2),
    MkRow(1, StrC(Chr_x), IntC(1), "US", StrC(Chr_B), 0),
    MkRow(2, DateC(0, 1), FltC(25), "US", StrC(Chr_B), 0) }

RECURSIVE SeqsUpTo(_, _)
SeqsUpTo(S, n) ==
  IF n = 0 THEN {<<>>}
  ELSE LET prev == SeqsUpTo(S, n - 1)
       IN prev \cup {Append(s, x) : s \in {p \in prev : Len(p) = n - 1}, x \in S}

\* A catalogue of k single-row orders with numeric references 10, 11, ...;
\* rev lists them in descending reference order.
BigTable(k, rev) ==
  [i \in 1..k |->
     MkRow(i, DateC(1, 0), IntC(i \div 2), IF i % 2 = 1 THEN "US" ELSE "FR",
           IntC(10 + (IF rev THEN k - i ELSE i)), i % 2)]

BigTables == {BigTable(k, rev) : k \in (TopN - 1)..(TopN + MaxExtraRefs), rev \in BOOLEAN}

\* Files whose orderdate column holds numbers only (5, -3 and 2.5), and files
\* whose quantity column holds number texts, infinity texts and texts padded
\* with blanks, tabs and line feeds.
NumericDateTables ==
  { <<MkRow(1, IntC(5), IntC(1), "US", StrC(Chr_A), 1),
      MkRow(2, IntC(0 - 3), IntC(2), "FR", StrC(Chr_B), 0)>>,
    <<MkRow(1, IntC(0), IntC(1), "US", StrC(Chr_A), 1),
      MkRow(2, FltC(25), IntC(2), "US", StrC(Chr_B), 0)>> }

TextQuantityTables ==
  { <<MkRow(1, DateC(0, 0), StrC(<<50, 46, 53>>), "US", StrC(Chr_A), 1),
      MkRow(1, DateC(0, 0), StrC(<<49, 101, 51>>), "US", StrC(Chr_B), 1),
      MkRow(2, DateC(1, 0), StrC(<<32, 43, 55, 32>>), "FR", StrC(Chr_A), 0)>>,
    <<MkRow(1, DateC(0, 0), StrC(<<105, 110, 102>>), "US", StrC(Chr_A), 1),
      MkRow(2, StrC(Chr_x), StrC(<<45, 73, 110, 102>>), "FR", StrC(Chr_B), 0)>>,
    <<MkRow(1, StrC(Chr_x), StrC(<<105, 110, 102>>), "US", StrC(Chr_A), 1),
      MkRow(2, DateC(1, 0), StrC(<<46, 53, 69, 43, 49>>), "FR", StrC(Chr_B), 0)>>,
    <<MkRow(1, DateC(0, 0), StrC(<<32, 105, 110, 102>>), "US", StrC(Chr_A), 1),
      MkRow(1, DateC(0, 0), StrC(<<105, 110, 102, 32>>), "US", StrC(Chr_B), 1),
      MkRow(2, DateC(1, 0), StrC(<<9, 53>>), "FR", StrC(Chr_A), 0),
      MkRow(2, DateC(1, 0), StrC(<<53, 10>>), "FR", StrC(Chr_B), 0)>>,
    <<MkRow(1, DateC(0, 0), StrC(Chr_x), "US", StrC(Chr_A), 1),
      MkRow(2, DateC(1, 0), StrC(<<43, 73, 110, 102, 105, 110, 105, 116, 121>>), "FR",
            StrC(Chr_B), 0)>> }

Tables == SeqsUpTo(RowPool, MaxRows) \cup BigTables \cup NumericDateTables \cup TextQuantityTables

ColumnSets ==
  (SUBSET Expected) \cup {S \cup {"id"} : S \in SUBSET (Expected \ {"ID"})}

\* pd.read_csv: the frame of a readable file with these columns and rows.
ReadCsv(cols, rows) ==
  [bound |-> TRUE, columns |-> cols,
   rows |-> [i \in 1..Len(rows) |->
               [c \in cols \cup {"index"} |-> IF c = "index" THEN i - 1 ELSE rows[i][c]]]]

Unbound == [bound |-> FALSE, columns |-> {}, rows |-> <<>>]

Msg(kind, text, cols) == [kind |-> kind, text |-> text, cols |-> cols]

NoOutput == [analysis |-> "none"]

Init ==
  /\ pc = "upload"
  /\ data = Unbound
  /\ messages = <<>>
  /\ vip_filter = "All Customers"
  /\ date_range = <<>>
  /\ selected_countries = {}
  /\ selected_product_refs = {}
  /\ filtered_data = <<>>
  /\ out = NoOutput
  /\ log = <<>>

\* -------------------------------------------------------- preprocessing
\* Truncation toward zero of a number given in tenths.
Trunc(tenths) == IF tenths >= 0 THEN tenths \div 10 ELSE 0 - ((0 - tenths) \div 10)

\* read_csv stores a column as numbers when every cell is a number or missing.
IsNumericColumn(rows, col) ==
  \A i \in 1..Len(rows) : rows[i][col].t \in {"int", "float", "nan"}

NaT == [nat |-> TRUE, ts |-> 0, ns |-> 0]

\* pd.to_datetime(..., errors="coerce"): a timestamp, or NaT.  Date text gives
\* its timestamp; a number of a numeric column is read as nanoseconds since
\* the epoch (decimals cut off); a missing value, and text that is no date in
\* a column of date texts, give NaT.
to_datetime(cell, numericColumn) ==
  IF cell.t = "date" THEN [nat |-> FALSE, ts |-> cell.n, ns |-> 0]
  ELSE IF numericColumn /\ cell.t = "int" THEN [nat |-> FALSE, ts |-> 0, ns |-> cell.n]
  ELSE IF numericColumn /\ cell.t = "float" THEN [nat |-> FALSE, ts |-> 0, ns |-> Trunc(cell.n)]
  ELSE NaT

\* a before b, for timestamps whose nanoseconds stay within one tick.
Before(a, b) == a.ts < b.ts \/ (a.ts = b.ts /\ a.ns < b.ns)

IsDigit(ch) == ch >= 48 /\ ch <= 57

RECURSIVE DigitsValue(_)
DigitsValue(s) == IF s = <<>> THEN 0 ELSE 10 * DigitsValue(SubSeq(s, 1, Len(s) - 1)) + (s[Len(s)] - 48)

IsDigits(s) == s # <<>> /\ \A i \in 1..Len(s) : IsDigit(s[i])

\* ASCII whitespace: the space, and tab, LF, VT, FF, CR.
IsSpace(ch) == ch = 32 \/ (ch >= 9 /\ ch <= 13)

RECURSIVE LStrip(_)
LStrip(s) == IF s # <<>> /\ IsSpace(Head(s)) THEN LStrip(Tail(s)) ELSE s

RECURSIVE RStrip(_)
RStrip(s) == IF s # <<>> /\ IsSpace(s[Len(s)]) THEN RStrip(SubSeq(s, 1, Len(s) - 1)) ELSE s

Lower(s) == [i \in 1..Len(s) |-> IF s[i] >= 65 /\ s[i] <= 90 THEN s[i] + 32 ELSE s[i]]

HasSign(s) == s # <<>> /\ Head(s) \in {43, 45}
Unsigned(s) == IF HasSign(s) THEN Tail(s) ELSE s
Negative(s) == s # <<>> /\ Head(s) = 45

\* First position of ch in s, or 0.
IndexOf(s, ch) ==
  IF \E i \in 1..Len(s) : s[i] = ch
    THEN CHOOSE i \in 1..Len(s) : s[i] = ch /\ \A j \in 1..(i - 1) : s[j] # ch
    ELSE 0

RECURSIVE Pow10(_)
Pow10(k) == IF k = 0 THEN 1 ELSE 10 * Pow10(k - 1)

\* An optionally signed "inf" / "infinity" in any case, with nothing around it.
IsInfinityText(s) ==
  Unsigned(Lower(s)) \in {<<105, 110, 102>>, <<105, 110, 102, 105, 110, 105, 116, 121>>}

\* The unsigned number text of to_numeric: digits with an optional decimal
\* point and an optional exponent.
ParseUnsigned(body) ==
  LET e == IndexOf(body, 101)
      mant == IF e = 0 THEN body ELSE SubSeq(body, 1, e - 1)
      expo == IF e = 0 THEN <<>> ELSE SubSeq(body, e + 1, Len(body))
      dot == IndexOf(mant, 46)
      ip == IF dot = 0 THEN mant ELSE SubSeq(mant, 1, dot - 1)
      fp == IF dot = 0 THEN <<>> ELSE SubSeq(mant, dot + 1, Len(mant))
      okMant == /\ ip \o fp # <<>>
                /\ \A i \in 1..Len(ip) : IsDigit(ip[i])
                /\ \A i \in 1..Len(fp) : IsDigit(fp[i])
      okExpo == e = 0 \/ IsDigits(Unsigned(expo))
      E == IF e = 0 THEN 0
           ELSE IF Negative(expo) THEN 0 - DigitsValue(Unsigned(expo))
           ELSE DigitsValue(Unsigned(expo))
      k == E - Len(fp) + 1
  IN IF okMant /\ okExpo
       THEN [nan |-> FALSE, inf |-> FALSE,
             tenths |-> IF k >= 0 THEN DigitsValue(ip \o fp) * Pow10(k)
                        ELSE DigitsValue(ip \o fp) \div Pow10(0 - k)]
     ELSE [nan |-> TRUE, inf |-> FALSE, tenths |-> 0]

\* pd.to_numeric(..., errors="coerce"): a number (kept to the tenth), an
\* infinity, or NaN.  Text parses as a number when, whitespace around it
\* aside, it is an optionally signed ParseUnsigned text; text that is no
\* number is an infinity only when it is an infinity text as it stands.
to_numeric(cell) ==
  IF cell.t = "int" THEN [nan |-> FALSE, inf |-> FALSE, tenths |-> 10 * cell.n]
  ELSE IF cell.t = "float" THEN [nan |-> FALSE, inf |-> FALSE, tenths |-> cell.n]
  ELSE IF cell.t = "str"
    THEN LET text == Lower(RStrip(LStrip(cell.s)))
             u == ParseUnsigned(Unsigned(text))
         IN IF ~u.nan THEN (IF Negative(text) THEN [u EXCEPT !.tenths = 0 - @] ELSE u)
            ELSE IF IsInfinityText(cell.s) THEN [nan |-> FALSE, inf |-> TRUE, tenths |-> 0]
            ELSE u
  ELSE [nan |-> TRUE, inf |-> FALSE, tenths |-> 0]

fillna(x, v) == IF x.nan THEN [nan |-> FALSE, inf |-> FALSE, tenths |-> 10 * v] ELSE x

\* astype(int) truncates toward zero (and raises on an infinity: see Preprocess).
astype_int(x) == Trunc(x.tenths)

\* str() of a float64 given in tenths: "2.5", "-0.5", "7.0".
FloatStr(tenths) ==
  IF tenths < 0 THEN <<45>> \o ToStr((0 - tenths) \div 10) \o <<46, 48 + ((0 - tenths) % 10)>>
  ELSE ToStr(tenths \div 10) \o <<46, 48 + (tenths % 10)>>

\* read_csv stores a column of numbers as float64 as soon as one of them is
\* missing or has decimals; integers then print as "7.0".
IsFloatColumn(rows, col) ==
  /\ \A i \in 1..Len(rows) : rows[i][col].t \in {"int", "float", "nan"}
  /\ \E i \in 1..Len(rows) : rows[i][col].t \in {"float", "nan"}

astype_str(cell, floatColumn) ==
  IF cell.t = "str" THEN cell.s
  ELSE IF cell.t = "nan" THEN <<110, 97, 110>>
  ELSE IF cell.t = "float" THEN FloatStr(cell.n)
  ELSE IF floatColumn THEN FloatStr(10 * cell.n)
  ELSE ToStr(cell.n)

dropna(rows) == LET Keep(r) == ~r["orderdate"].nat IN SelectSeq(rows, Keep)

\* lines 50-51: the orderdate column parsed, rows without a date dropped.
Dated(rows) ==
  LET numeric == IsNumericColumn(rows, "orderdate")
  IN dropna([i \in 1..Len(rows) |->
               [rows[i] EXCEPT !["orderdate"] = to_datetime(@, numeric)]])

\* line 53: astype(int) raises when a quantity is infinite.
QuantityRaises(kept) ==
  \E i \in 1..Len(kept) : fillna(to_numeric(kept[i]["quantity"]), 0).inf

Preprocessed(rows) ==
  LET kept == Dated(rows)
      floatRefs == IsFloatColumn(rows, "ref_total")
  IN [i \in 1..Len(kept) |->
        [kept[i] EXCEPT !["quantity"] = astype_int(fillna(to_numeric(@), 0)),
                        !["ref_total"] = astype_str(@, floatRefs)]]

\* ------------------------------------------------------------ filtering
RECURSIVE Unique(_, _)
Unique(rows, col) ==
  IF rows = <<>> THEN <<>>
  ELSE LET u == Unique(SubSeq(rows, 1, Len(rows) - 1), col)
           v == rows[Len(rows)][col]
       IN IF \E i \in 1..Len(u) : u[i] = v THEN u ELSE Append(u, v)

Range(s) == {s[i] : i \in 1..Len(s)}

\* pd.to_datetime of a calendar date: midnight of that day.
DateToTimestamp(day) == [nat |-> FALSE, ts |-> day * TicksPerDay, ns |-> 0]

Days == {0, 1}
DateRanges == {<<d>> : d \in Days} \cup {r \in Days \X Days : r[1] <= r[2]}
VipOptions == {"All Customers", "VIP", "Non-VIP"}

\* Selections of a multiselect whose options are the sentinel and the
\* distinct values of a column (here: any of the sentinel and the first two).
Selections(sentinel, uniq) ==
  SUBSET ({sentinel} \cup {uniq[i] : i \in 1..(IF Len(uniq) < 2 THEN Len(uniq) ELSE 2)})

\* Faulty variant: the sentinel is ignored when explicit values are selected with it.
ExpandCountries_explicit(rows, sel) ==
  IF sel = {AllCountries} THEN Range(Unique(rows, "shipcountrycode"))
  ELSE sel \ {AllCountries}

ExpandCountries(rows, sel) ==
  IF AllCountries \in sel THEN Range(Unique(rows, "shipcountrycode")) ELSE sel

ExpandRefs(rows, sel) ==
  IF AllRefs \in sel THEN Range(Unique(rows, "ref_total")) ELSE sel

DateCountryRefMask(rows, range, countries, refs) ==
  LET Keep(r) == /\ ~r["orderdate"].nat
                 /\ ~Before(r["orderdate"], DateToTimestamp(range[1]))
                 /\ ~Before(DateToTimestamp(range[2]), r["orderdate"])
                 /\ r["shipcountrycode"] \in countries
                 /\ r["ref_total"] \in refs
  IN SelectSeq(rows, Keep)

\* Faulty variant: every row that is not VIP counts as Non-VIP.
VipMask_lenient(rows, vip) ==
  LET IsVip(r) == r["Vip"] = 1
      IsNonVip(r) == r["Vip"] # 1
  IN IF vip = "VIP" THEN SelectSeq(rows, IsVip)
     ELSE IF vip = "Non-VIP" THEN SelectSeq(rows, IsNonVip)
     ELSE rows

VipMask(rows, vip) ==
  LET IsVip(r) == r["Vip"] = 1
      IsNonVip(r) == r["Vip"] = 0
  IN IF vip = "VIP" THEN SelectSeq(rows, IsVip)
     ELSE IF vip = "Non-VIP" THEN SelectSeq(rows, IsNonVip)
     ELSE rows

FilteredData(rows, vip, range, selC, selR) ==
  VipMask(DateCountryRefMask(rows, range, ExpandCountries(rows, selC),
                             ExpandRefs(rows, selR)), vip)

IsEmpty(rows) == Len(rows) = 0

\* ---------------------------------------------------------- aggregation
nunique(rows, col) == Cardinality({rows[i][col] : i \in 1..Len(rows)})

RECURSIVE SumOver(_, _)
SumOver(rows, col) == IF rows = <<>> THEN 0 ELSE rows[1][col] + SumOver(Tail(rows), col)

\* groupby(key)[val].sum(): a Series keyed by the distinct keys.
GroupSum(rows, key, val) ==
  [k \in {rows[i][key] : i \in 1..Len(rows)} |->
     LET Same(r) == r[key] = k IN SumOver(SelectSeq(rows, Same), val)]

\* value_counts(): rows per distinct value.
ValueCounts(rows, col) ==
  [k \in {rows[i][col] : i \in 1..Len(rows)} |->
     LET Same(r) == r[col] = k IN Len(SelectSeq(rows, Same))]

RECURSIVE SumFn(_)
SumFn(f) ==
  IF DOMAIN f = {} THEN 0
  ELSE LET k == CHOOSE x \in DOMAIN f : TRUE
       IN f[k] + SumFn([x \in DOMAIN f \ {k} |-> f[x]])

MaxVal(f) == CHOOSE m \in {f[k] : k \in DOMAIN f} : \A k \in DOMAIN f : f[k] <= m

\* sort_values(ascending=False) with the default, unstable sort kind: every
\* listing of the entries by descending value; entries of equal value come in
\* an order the sort does not fix.
RECURSIVE SortValuesDesc(_)
SortValuesDesc(f) ==
  IF DOMAIN f = {} THEN {<<>>}
  ELSE UNION {{<<<<k, f[k]>>>> \o rest :
                 rest \in SortValuesDesc([x \in DOMAIN f \ {k} |-> f[x]])} :
              k \in {x \in DOMAIN f : f[x] = MaxVal(f)}}

\* Faulty variant: one entry short.
head_short(s, n) == SubSeq(s, 1, IF Len(s) < n - 1 THEN Len(s) ELSE n - 1)

head(s, n) == SubSeq(s, 1, IF Len(s) < n THEN Len(s) ELSE n)

RECURSIVE Combinations2(_)
Combinations2(s) ==
  IF Len(s) < 2 THEN <<>>
  ELSE [j \in 1..(Len(s) - 1) |-> <<s[1], s[j + 1]>>] \o Combinations2(Tail(s))

RECURSIVE CounterUpdate(_, _)
CounterUpdate(c, keys) ==
  IF keys = <<>> THEN c
  ELSE LET k == Head(keys)
       IN CounterUpdate([x \in DOMAIN c \cup {k} |->
                           IF x = k THEN (IF k \in DOMAIN c THEN c[k] + 1 ELSE 1) ELSE c[x]],
                        Tail(keys))

\* groupby("ID")["ref_total"].apply(list): one list of references per order.
OrderGroup(rows, id) ==
  LET Same(r) == r["ID"] = id
      g == SelectSeq(rows, Same)
  IN [i \in 1..Len(g) |-> g[i]["ref_total"]]

GroupPairs(group) == Combinations2(Sorted(group))

RECURSIVE CooccurrencesOf(_, _)
CooccurrencesOf(rows, ids) ==
  IF ids = {} THEN <<>>
  ELSE LET id == CHOOSE x \in ids : \A y \in ids : y <= x
       IN CounterUpdate(CooccurrencesOf(rows, ids \ {id}), GroupPairs(OrderGroup(rows, id)))

Cooccurrences(rows) == CooccurrencesOf(rows, {rows[i]["ID"] : i \in 1..Len(rows)})

\* mean of the per-order quantity sums, as a fraction.
AverageOrderSize(rows) ==
  LET sums == GroupSum(rows, "ID", "quantity")
  IN [num |-> SumFn(sums), den |-> Cardinality(DOMAIN sums)]

\* ---------------------------------------------------------------- steps
Stop(msg, step) ==
  /\ messages' = Append(messages, msg)
  /\ log' = Append(log, step)
  /\ pc' = "stopped"

\* lines 20, 26-29: nothing uploaded.
NoUpload ==
  /\ pc = "upload"
  /\ Stop(Msg("info", "please upload", <<>>), "upload")
  /\ UNCHANGED <<data, vip_filter, date_range, selected_countries,
                 selected_product_refs, filtered_data, out>>

\* lines 22-25: read_csv raises; the error is shown and the script goes on.
ReadFails ==
  /\ pc = "upload"
  /\ messages' = Append(messages, Msg("error", "error reading", <<>>))
  /\ log' = Append(log, "upload")
  /\ pc' = "validate"
  /\ UNCHANGED <<data, vip_filter, date_range, selected_countries,
                 selected_product_refs, filtered_data, out>>

\* lines 22-23: read_csv returns a frame.  Files that lack a required column
\* are tried with at most one row: their rows are never read.
ReadOk ==
  /\ pc = "upload"
  /\ \E cols \in ColumnSets, rows \in Tables :
       /\ (Expected \subseteq cols) \/ Len(rows) <= 1
       /\ data' = ReadCsv(cols, rows)
  /\ log' = Append(log, "upload")
  /\ pc' = "validate"
  /\ UNCHANGED <<messages, vip_filter, date_range, selected_countries,
                 selected_product_refs, filtered_data, out>>

\* Faulty variant: only the first missing column is named.
missing_columns_first(cols) ==
  LET Absent(c) == c \notin cols
      m == SelectSeq(expected_columns, Absent)
  IN IF m = <<>> THEN m ELSE <<m[1]>>

missing_columns(cols) ==
  LET Absent(c) == c \notin cols IN SelectSeq(expected_columns, Absent)

\* lines 40-47; reading data.columns when data was never bound raises NameError.
Validate ==
  /\ pc = "validate"
  /\ IF ~data.bound
       THEN /\ pc' = "crashed"
            /\ log' = Append(log, "validate")
            /\ UNCHANGED messages
       ELSE IF ~(\A i \in 1..Len(expected_columns) : expected_columns[i] \in data.columns)
       THEN Stop(Msg("error", "missing columns", missing_columns(data.columns)), "validate")
       ELSE /\ pc' = "preprocess"
            /\ log' = Append(log, "validate")
            /\ UNCHANGED messages
  /\ UNCHANGED <<data, vip_filter, date_range, selected_countries,
                 selected_product_refs, filtered_data, out>>

\* lines 50-57; an infinite quantity makes astype(int) raise on line 53, after
\* lines 50-51 have rewritten the frame.
Preprocess ==
  /\ pc = "preprocess"
  /\ IF QuantityRaises(Dated(data.rows))
       THEN /\ data' = [data EXCEPT !.rows = Dated(@)]
            /\ pc' = "crashed"
       ELSE /\ data' = [data EXCEPT !.rows = Preprocessed(@)]
            /\ pc' = "sidebar"
  /\ log' = Append(log, "preprocess")
  /\ UNCHANGED <<messages, vip_filter, date_range, selected_countries,
                 selected_product_refs, filtered_data, out>>

\* lines 60-74: the widgets return the user's selections; the date widget
\* returns one date while a range is half chosen, else two.  Its default,
\* line 65, is [min, max] of the orderdate column: [NaT, NaT] for a frame
\* without rows, which the widget cannot take as dates: the call raises.
Sidebar ==
  /\ pc = "sidebar"
  /\ vip_filter' \in VipOptions
  /\ IF data.rows = <<>>
       THEN /\ pc' = "crashed"
            /\ UNCHANGED <<date_range, selected_countries, selected_product_refs>>
       ELSE /\ date_range' \in DateRanges
            /\ selected_countries' \in
                 Selections(AllCountries, Unique(data.rows, "shipcountrycode"))
            /\ selected_product_refs' \in Selections(AllRefs, Unique(data.rows, "ref_total"))
            /\ pc' = "filter"
  /\ log' = Append(log, "sidebar")
  /\ UNCHANGED <<data, messages, filtered_data, out>>

\* lines 77-99; date_range[1] on a one-date selection raises IndexError.
ApplyFilters ==
  /\ pc = "filter"
  /\ IF Len(date_range) < 2
       THEN /\ pc' = "crashed"
            /\ log' = Append(log, "filter")
            /\ UNCHANGED <<messages, filtered_data>>
       ELSE LET f == FilteredData(data.rows, vip_filter, date_range,
                                  selected_countries, selected_product_refs)
            IN /\ filtered_data' = f
               /\ IF IsEmpty(f)
                    THEN Stop(Msg("warning", "no data", <<>>), "filter")
                    ELSE /\ pc' = "analysis"
                         /\ log' = Append(log, "filter")
                         /\ UNCHANGED messages
  /\ UNCHANGED <<data, vip_filter, date_range, selected_countries,
                 selected_product_refs, out>>

\* lines 105-135.
CountryAnalysis ==
  /\ pc = "analysis"
  /\ \E by_country \in SortValuesDesc(ValueCounts(filtered_data, "shipcountrycode")) :
       out' = [analysis |-> "Country Analysis",
               total_orders |-> nunique(filtered_data, "ID"),
               unique_countries |-> nunique(filtered_data, "shipcountrycode"),
               top_three_countries |-> head(by_country, 3),
               orders_by_country |-> by_country]
  /\ log' = Append(log, "aggregate")
  /\ pc' = "done"
  /\ UNCHANGED <<data, messages, vip_filter, date_range, selected_countries,
                 selected_product_refs, filtered_data>>

\* lines 137-179.
ProductAnalysis ==
  /\ pc = "analysis"
  /\ \E popular \in SortValuesDesc(GroupSum(filtered_data, "ref_total", "quantity")),
        pairs \in SortValuesDesc(Cooccurrences(filtered_data)) :
       out' = [analysis |-> "Product Analysis",
               total_quantity_sold |-> SumOver(filtered_data, "quantity"),
               average_order_size |-> AverageOrderSize(filtered_data),
               popular_products |-> head(popular, TopN),
               cooccurrences |-> Cooccurrences(filtered_data),
               cooccurrence_df |-> pairs]
  /\ log' = Append(log, "aggregate")
  /\ pc' = "done"
  /\ UNCHANGED <<data, messages, vip_filter, date_range, selected_countries,
                 selected_product_refs, filtered_data>>

Next ==
  \/ NoUpload
  \/ ReadFails
  \/ ReadOk
  \/ Validate
  \/ Preprocess
  \/ Sidebar
  \/ ApplyFilters
  \/ CountryAnalysis
  \/ ProductAnalysis

Spec == Init /\ [][Next]_vars

\* ---------------------------------------------------------------- claims
FilterDone == pc \in {"stopped", "analysis", "done"} /\ "filter" \in Range(log)

LastMessage == messages[Len(messages)]

\* The calendar day of a timestamp.
DayOf(t) == IF t.ns < 0 THEN (t.ts - 1) \div TicksPerDay ELSE t.ts \div TicksPerDay

VipMatch(r, vip) ==
  \/ vip = "All Customers"
  \/ vip = "VIP" /\ r["Vip"] = 1
  \/ vip = "Non-VIP" /\ r["Vip"] = 0

ObservedCountries == {data.rows[i]["shipcountrycode"] : i \in 1..Len(data.rows)}
ObservedRefs == {data.rows[i]["ref_total"] : i \in 1..Len(data.rows)}

CountrySet == IF AllCountries \in selected_countries THEN ObservedCountries ELSE selected_countries
RefSet == IF AllRefs \in selected_product_refs THEN ObservedRefs ELSE selected_product_refs

\* C1: the filtered view is exactly the set of canonical rows whose order date
\* (a calendar date) lies in the inclusive range [start, end], whose country is
\* in the country set, whose reference is in the reference set, and whose Vip
\* matches the VIP mode.
C1_FilterIsConjunction ==
  FilterDone =>
    Range(filtered_data) =
      {r \in Range(data.rows) :
         /\ date_range[1] <= DayOf(r["orderdate"])
         /\ DayOf(r["orderdate"]) <= date_range[2]
         /\ r["shipcountrycode"] \in CountrySet
         /\ r["ref_total"] \in RefSet
         /\ VipMatch(r, vip_filter)}

ProductDone == pc = "done" /\ out.analysis = "Product Analysis"

FilteredRefs == {filtered_data[i]["ref_total"] : i \in 1..Len(filtered_data)}
FilteredIds == {filtered_data[i]["ID"] : i \in 1..Len(filtered_data)}
RefsOfOrder(id) ==
  {filtered_data[i]["ref_total"] : i \in {j \in 1..Len(filtered_data) : filtered_data[j]["ID"] = id}}

PairCount(a, b) ==
  LET k == IF LexLess(a, b) THEN <<a, b>> ELSE <<b, a>>
  IN IF k \in DOMAIN out.cooccurrences THEN out.cooccurrences[k] ELSE 0

\* C2: the count reported for two distinct references A and B is the number of
\* distinct orders of the filtered view that contain both.
C2_CountIsOrdersWithBoth ==
  ProductDone =>
    \A a \in FilteredRefs, b \in FilteredRefs :
      a # b => PairCount(a, b) =
                 Cardinality({id \in FilteredIds : a \in RefsOfOrder(id) /\ b \in RefsOfOrder(id)})

\* C3: an order with k distinct references contributes exactly C(k,2) pairs,
\* each of two different references; no pair of a reference with itself is a
\* key of the result.
C3_PairsPerOrder ==
  ProductDone =>
    /\ \A id \in FilteredIds :
         LET k == Cardinality(RefsOfOrder(id))
             ps == GroupPairs(OrderGroup(filtered_data, id))
         IN /\ 2 * Len(ps) = k * (k - 1)
            /\ \A i \in 1..Len(ps) : ps[i][1] # ps[i][2]
    /\ \A key \in DOMAIN out.cooccurrences : key[1] # key[2]

Normalized ==
  "preprocess" \in Range(log) /\ ~(pc = "crashed" /\ log[Len(log)] = "preprocess")

\* C4: after normalization every record has a parsed order date and a
\* non-negative integer quantity, also in the table that is filtered.
C4_CanonicalInvariant ==
  Normalized =>
    /\ \A i \in 1..Len(data.rows) :
         ~data.rows[i]["orderdate"].nat /\ data.rows[i]["quantity"] >= 0
    /\ \A i \in 1..Len(filtered_data) : filtered_data[i]["quantity"] >= 0

ReadFailed == messages # <<>> /\ messages[1].text = "error reading"

\* C5: when reading the file fails the run shows the error and halts: no later
\* step runs and the run does not end in an unhandled failure.
C5_ReadFailureHalts ==
  ReadFailed => pc # "crashed" /\ log = <<"upload">> /\ out = NoOutput

MissingSet == Expected \ data.columns

\* C6: when a required column is missing the run reports an error naming
\* exactly the missing columns and halts before normalization, filtering and
\* aggregation.
C6_MissingColumnsHalt ==
  (data.bound /\ "validate" \in Range(log) /\ MissingSet # {}) =>
    /\ pc = "stopped"
    /\ Len(messages) = 1
    /\ LastMessage.kind = "error"
    /\ LastMessage.text = "missing columns"
    /\ Range(LastMessage.cols) = MissingSet
    /\ Len(LastMessage.cols) = Cardinality(MissingSet)
    /\ log = <<"upload", "validate">>
    /\ filtered_data = <<>>
    /\ out = NoOutput

C6_Witness ==
  /\ pc = "stopped"
  /\ data.bound
  /\ messages # <<>>
  /\ LastMessage.text = "missing columns"
  /\ Len(LastMessage.cols) >= 2
  /\ "id" \in data.columns
  /\ "Vip" \in data.columns
  /\ Len(data.rows) = 1

\* C7: whenever the filters select no row, also when normalization has left
\* the canonical table empty, the run ends with the empty-result notice and
\* nothing is aggregated; aggregates exist only over a non-empty view, so the
\* average never divides by zero.
C7_EmptyViewStops ==
  /\ (FilterDone /\ filtered_data = <<>>) =>
       /\ pc = "stopped"
       /\ LastMessage.kind = "warning"
       /\ LastMessage.text = "no data"
       /\ out = NoOutput
       /\ "aggregate" \notin Range(log)
  /\ (Normalized /\ data.rows = <<>> /\ pc \in {"stopped", "crashed", "done"}) =>
       /\ pc = "stopped"
       /\ LastMessage.kind = "warning"
       /\ LastMessage.text = "no data"
  /\ (out # NoOutput) =>
       /\ filtered_data # <<>>
       /\ (out.analysis = "Product Analysis" => out.average_order_size.den > 0)
       /\ (out.analysis = "Country Analysis" => out.total_orders > 0)

ViewUnder(vip) ==
  Range(FilteredData(data.rows, vip, date_range, selected_countries, selected_product_refs))

\* C8: a row whose Vip is outside {0,1} is in the view only under the All
\* selection; the VIP and Non-VIP views are disjoint and their union is the
\* All view minus the rows whose Vip is outside {0,1}.
C8_VipPartition ==
  FilterDone =>
    /\ Range(filtered_data) = ViewUnder(vip_filter)
    /\ \A r \in Range(filtered_data) : r["Vip"] \notin {0, 1} => vip_filter = "All Customers"
    /\ ViewUnder("VIP") \cap ViewUnder("Non-VIP") = {}
    /\ ViewUnder("VIP") \cup ViewUnder("Non-VIP") =
         {r \in ViewUnder("All Customers") : r["Vip"] \in {0, 1}}

C8_Witness ==
  /\ FilterDone
  /\ vip_filter = "Non-VIP"
  /\ filtered_data # <<>>
  /\ \E r \in ViewUnder("All Customers") : r["Vip"] \notin {0, 1}
  /\ ViewUnder("VIP") # {}

\* C9: selecting a sentinel, alone or with explicit values, yields the view
\* obtained by explicitly selecting every distinct value of that column.
C9_SentinelIsFullDomain ==
  FilterDone =>
    /\ AllCountries \in selected_countries =>
         filtered_data = FilteredData(data.rows, vip_filter, date_range,
                                      ObservedCountries, selected_product_refs)
    /\ AllRefs \in selected_product_refs =>
         filtered_data = FilteredData(data.rows, vip_filter, date_range,
                                      selected_countries, ObservedRefs)

C9_Witness ==
  /\ FilterDone
  /\ AllCountries \in selected_countries
  /\ selected_countries # {AllCountries}
  /\ \E r \in Range(filtered_data) : r["shipcountrycode"] \notin selected_countries
  /\ AllRefs \notin selected_product_refs

RefSum(ref) ==
  LET Same(r) == r["ref_total"] = ref IN SumOver(SelectSeq(filtered_data, Same), "quantity")

FirstRow(ref) == CHOOSE i \in 1..Len(filtered_data) :
  /\ filtered_data[i]["ref_total"] = ref
  /\ \A j \in 1..(i - 1) : filtered_data[j]["ref_total"] # ref

PopularShape(pp) ==
  /\ Len(pp) = (IF Cardinality(FilteredRefs) < TopN THEN Cardinality(FilteredRefs) ELSE TopN)
  /\ \A i \in 1..Len(pp) : pp[i][1] \in FilteredRefs /\ pp[i][2] = RefSum(pp[i][1])
  /\ \A i \in 1..Len(pp), j \in 1..Len(pp) : i < j => pp[i][1] # pp[j][1] /\ pp[i][2] >= pp[j][2]
  /\ \A ref \in FilteredRefs :
       (\A i \in 1..Len(pp) : pp[i][1] # ref) => \A i \in 1..Len(pp) : pp[i][2] >= RefSum(ref)

\* C10 as stated: top min(10, distinct references) by summed quantity,
\* descending, and equal sums in order of first encounter in the view.
C10_TiesByFirstEncounter ==
  ProductDone =>
    /\ PopularShape(out.popular_products)
    /\ \A i \in 1..Len(out.popular_products), j \in 1..Len(out.popular_products) :
         (i < j /\ out.popular_products[i][2] = out.popular_products[j][2]) =>
           FirstRow(out.popular_products[i][1]) < FirstRow(out.popular_products[j][1])

\* C10 amended: top min(10, distinct references) by summed quantity,
\* descending, no omitted product above a returned one; the order among equal
\* sums is not fixed.
C10_TopByQuantity == ProductDone => PopularShape(out.popular_products)

C10_Witness ==
  /\ ProductDone
  /\ Cardinality(FilteredRefs) > TopN
  /\ Len(out.popular_products) = TopN
  /\ \E i \in 1..(TopN - 1) : out.popular_products[i][2] = out.popular_products[i + 1][2]
====
